---- MODULE Spec2Model ----
(***************************************************************************)
(* Task/job lifecycle of the screenshot service: the background runner     *)
(* processScreenshotTask (src/lib/process-task.ts), the cancel handler     *)
(* (src/pages/api/cancel-task.ts) and the key-value task store they share. *)
(* Every store read and store write is one atomic step; the runner and the *)
(* cancel handler interleave at those steps.                               *)
(***************************************************************************)
EXTENDS Integers, Sequences, FiniteSets, TLC

\* ------------------------------------------------------------------ bounds
MaxJobs == 2        \* length of the job list of the submitted task
MaxCancels == 1     \* cancel requests received
MaxRuns == 2        \* invocations of processScreenshotTask (first run + resumes)
MaxFails == 1       \* store writes that fail

\* ------------------------------------------------------------- data model
None == "undefined"             \* an absent optional field (JS undefined)
Null == [null |-> TRUE]         \* getTask's null: no record under the task id

TerminalStatuses == {"completed", "partially_completed", "error", "cancelled"}

CancelReason == "Task cancelled by user request."

\* A set of cancellable statuses that also takes a task already cancelling.
CancellableStatuses_WithCancelling == {"pending", "processing", "cancelling"}

\* cancellableStatuses of the cancel handler.
CancellableStatuses == {"pending", "processing"}

\* The cancel handler's four responses.
CancelNotFound == [code |-> 200, message |-> "not found or already finished"]
CancelInitiated == [code |-> 200, message |-> "cancellation initiated"]
CancelAlreadyFinal == [code |-> 200, message |-> "already in a final state"]
CancelFailed == [code |-> 500, error |-> "Failed to initiate cancellation"]

\* uuidv4(): a fresh identifier over [0-9a-f-], here one character long.
TaskId == <<"7">>

\* Date.now() when the task was submitted.
CreatedAt == 1

\* path.join(BASE_TASK_SCREENSHOT_DIR, taskId)
TaskSpecificDir == "public/task_screenshots/7"

\* The target and the dimension of the jobs the runner is followed on: a URL
\* that the schema and the runner's own `new URL` accept, and a dimension
\* whose width and height are positive.
JobUrl == <<"h", "t", "t", "p", ":", "/", "/", "a">>
DimOk == <<"1", "x", "2">>

\* A dimension the schema's /^\d+x\d+$/ accepts and parseDimension rejects.
DimZero == <<"0", "x", "5">>

\* One pending job as the submission handler pushes it: imageUrl and message
\* are not set.
NewJob(id) ==
    [id |-> id, url |-> JobUrl, dimension |-> DimOk, screenshotType |-> "viewport",
     status |-> "pending", waitMs |-> 0, message |-> None, imageUrl |-> None]

\* The task the submission handler stores: status pending, every job pending.
NewTask(n) ==
    [taskId |-> TaskId, status |-> "pending", jobs |-> [j \in 1..n |-> NewJob(j)],
     createdAt |-> CreatedAt, taskSpecificDir |-> TaskSpecificDir, error |-> None]

\* A lookup that never finds the job.
FindIndex_Missing(jobs, id) == 0

\* task.jobs.findIndex(j => j.id === id); 0 stands for JS's -1.
FindIndex(jobs, id) ==
    IF \E j \in DOMAIN jobs : jobs[j].id = id
    THEN CHOOSE j \in DOMAIN jobs :
            /\ jobs[j].id = id
            /\ \A k \in DOMAIN jobs : jobs[k].id = id => j <= k
    ELSE 0

\* What processSingleJob resolves to: a partial job, holding the keys of its
\* return statement only.
CaptureCompleted == [status |-> "completed", localPath |-> "file", imageUrl |-> "image"]
CaptureError == [status |-> "error", message |-> "capture failed"]

DirectoryError == [status |-> "error", message |-> "Failed to create storage directory"]
DimensionError == [status |-> "error", message |-> "Invalid dimension format"]

\* `result` before the first capture has returned.
NoResult == [status |-> None]

\* parseInt(ds, 10) on a string of decimal digits.
DigitValue(c) == CHOOSE n \in 0..9 : ToString(n) = c

RECURSIVE ParseInt(_)
ParseInt(ds) ==
    IF ds = <<>> THEN 0
    ELSE ParseInt(SubSeq(ds, 1, Len(ds) - 1)) * 10 + DigitValue(ds[Len(ds)])

\* A parse that accepts a width or height of zero.
ParseDimension_AcceptsZero(d) ==
    IF \E k \in 2..(Len(d) - 1) :
          d[k] = "x" /\ \A j \in DOMAIN d : j # k => DigitValue(d[j]) \in 0..9
    THEN [width |-> 1, height |-> 1]
    ELSE Null

\* parseDimension: /^(\d+)x(\d+)$/ with both numbers greater than 0, or null.
ParseDimension(d) ==
    LET isDigit(c) == c \in {"0", "1", "2", "3", "4", "5", "6", "7", "8", "9"}
        xs == {k \in 2..(Len(d) - 1) :
                 d[k] = "x" /\ \A j \in DOMAIN d : j # k => isDigit(d[j])}
    IN IF xs = {} THEN Null
       ELSE LET k == CHOOSE x \in xs : TRUE
                width == ParseInt(SubSeq(d, 1, k - 1))
                height == ParseInt(SubSeq(d, k + 1, Len(d)))
            IN IF width > 0 /\ height > 0
               THEN [width |-> width, height |-> height]
               ELSE Null

\* The ceiling of the settle delay fixed in processSingleJob.
WaitCeiling == 5000

\* `initialWaitMs || 0`: the job's waitMs, 0 when the optional field is missing.
WaitOf(job) == IF "waitMs" \in DOMAIN job THEN job.waitMs ELSE 0

\* A wait that takes the stored value as it is.
SettleDelay_Uncapped(job) == WaitOf(job)

\* Math.min(initialWaitMs || 0, 5000)
SettleDelay(job) == IF WaitOf(job) < WaitCeiling THEN WaitOf(job) ELSE WaitCeiling

\* The time slept between goto and screenshot: `if (waitMs > 0)`.
DelayApplied(job) == IF SettleDelay(job) > 0 THEN SettleDelay(job) ELSE 0

\* processSingleJob(job, task, page): the directory is prepared, the dimension
\* parsed, the page sized, loaded and captured; each failure is returned as a
\* result of status error. The job's URL is one that `new URL` accepts.
ProcessSingleJob(job, dirOk, pageOk) ==
    IF ~dirOk THEN DirectoryError
    ELSE IF ParseDimension(job.dimension) = Null THEN DimensionError
    ELSE IF ~pageOk THEN CaptureError
    ELSE CaptureCompleted

\* Every result processSingleJob can resolve to.
JobResults == {CaptureCompleted, CaptureError, DirectoryError, DimensionError}

CaptureOutcomes == {CaptureCompleted, CaptureError}

\* A merge that copies the result's status and image but not its message.
MergeResult_DropsMessage(job, res) ==
    [k \in DOMAIN job \cup DOMAIN res |->
        IF k = "status" THEN (IF res.status # None THEN res.status ELSE "error")
        ELSE IF k \in DOMAIN res /\ k # "message" THEN res[k]
        ELSE job[k]]

\* A merge that replaces the job by the result and the job's id.
MergeResult_ResultOnly(job, res) ==
    [k \in {"id", "message", "imageUrl"} \cup DOMAIN res |->
        IF k = "status" THEN (IF res.status # None THEN res.status ELSE "error")
        ELSE IF k \in DOMAIN res THEN res[k]
        ELSE job[k]]

\* { ...job, ...result, status: result.status || 'error' }: a key the result
\* carries overwrites the job's, a key it lacks keeps the job's value.
MergeResult(job, res) ==
    [k \in DOMAIN job \cup DOMAIN res |->
        IF k = "status" THEN (IF res.status # None THEN res.status ELSE "error")
        ELSE IF k \in DOMAIN res THEN res[k]
        ELSE job[k]]

\* task.jobs.filter(j => j.status === s).length
CountStatus(jobs, s) == Cardinality({j \in DOMAIN jobs : jobs[j].status = s})

JobDone(j) == j.status \in {"completed", "error"}
AllJobsDone(t) == \A j \in DOMAIN t.jobs : JobDone(t.jobs[j])

\* JS `a || b` on an optional string.
OrElse(a, b) == IF a # None THEN a ELSE b

JobsFailedMsg(k) == ToString(k) \o " job(s) failed."
UnfinishedMsg(k) ==
    "Task processing stopped unexpectedly with " \o ToString(k) \o " jobs unfinished."

\* A status computation without the partially_completed branch.
FinalStatus_NoPartial(wc, t) ==
    IF wc \/ t.status = "cancelled" THEN "cancelled"
    ELSE IF t.status = "error" THEN "error"
    ELSE IF CountStatus(t.jobs, "pending") = 0 /\ CountStatus(t.jobs, "processing") = 0
         THEN IF CountStatus(t.jobs, "error") = 0 THEN "completed" ELSE "error"
         ELSE "error"

\* A status computation that never looks for pending or processing jobs.
FinalStatus_IgnoresUnfinished(wc, t) ==
    IF wc \/ t.status = "cancelled" THEN "cancelled"
    ELSE IF t.status = "error" THEN "error"
    ELSE IF CountStatus(t.jobs, "error") = 0 THEN "completed"
    ELSE IF CountStatus(t.jobs, "completed") > 0 THEN "partially_completed"
    ELSE "error"

\* A status computation that calls a task with a failed job partially
\* completed whether or not any job completed.
FinalStatus_PartialOnAnyError(wc, t) ==
    IF wc \/ t.status = "cancelled" THEN "cancelled"
    ELSE IF t.status = "error" THEN "error"
    ELSE IF CountStatus(t.jobs, "pending") = 0 /\ CountStatus(t.jobs, "processing") = 0
         THEN IF CountStatus(t.jobs, "error") = 0 THEN "completed"
              ELSE "partially_completed"
         ELSE "error"

\* A status computation that ignores the cancellation flag of the run.
FinalStatus_IgnoresFlag(wc, t) ==
    IF t.status = "cancelled" THEN "cancelled"
    ELSE IF t.status = "error" THEN "error"
    ELSE IF CountStatus(t.jobs, "pending") = 0 /\ CountStatus(t.jobs, "processing") = 0
         THEN IF CountStatus(t.jobs, "error") = 0 THEN "completed"
              ELSE IF CountStatus(t.jobs, "completed") > 0 THEN "partially_completed"
              ELSE "error"
         ELSE "error"

\* A status computation that looks at the stored error status before the
\* cancellation flag.
FinalStatus_ErrorFirst(wc, t) ==
    IF t.status = "error" THEN "error"
    ELSE IF wc \/ t.status = "cancelled" THEN "cancelled"
    ELSE IF CountStatus(t.jobs, "pending") = 0 /\ CountStatus(t.jobs, "processing") = 0
         THEN IF CountStatus(t.jobs, "error") = 0 THEN "completed"
              ELSE IF CountStatus(t.jobs, "completed") > 0 THEN "partially_completed"
              ELSE "error"
         ELSE "error"

\* The final status computed in the finally block from the reloaded task.
FinalStatus(wc, t) ==
    IF wc \/ t.status = "cancelled" THEN "cancelled"
    ELSE IF t.status = "error" THEN "error"
    ELSE IF CountStatus(t.jobs, "pending") = 0 /\ CountStatus(t.jobs, "processing") = 0
         THEN IF CountStatus(t.jobs, "error") = 0 THEN "completed"
              ELSE IF CountStatus(t.jobs, "completed") > 0 THEN "partially_completed"
              ELSE "error"
         ELSE "error"

\* An error computation that overwrites a text already present.
FinalError_AlwaysDefault(wc, t) ==
    IF wc \/ t.status = "cancelled" THEN "Task cancelled."
    ELSE IF t.status = "error" THEN "Task failed during processing."
    ELSE IF CountStatus(t.jobs, "pending") = 0 /\ CountStatus(t.jobs, "processing") = 0
         THEN IF CountStatus(t.jobs, "error") = 0 THEN None
              ELSE IF CountStatus(t.jobs, "completed") > 0
                   THEN JobsFailedMsg(CountStatus(t.jobs, "error"))
              ELSE "All screenshot jobs failed."
         ELSE UnfinishedMsg(CountStatus(t.jobs, "pending")
                            + CountStatus(t.jobs, "processing"))

\* The final error text computed beside it.
FinalError(wc, t) ==
    IF wc \/ t.status = "cancelled" THEN OrElse(t.error, "Task cancelled.")
    ELSE IF t.status = "error" THEN OrElse(t.error, "Task failed during processing.")
    ELSE IF CountStatus(t.jobs, "pending") = 0 /\ CountStatus(t.jobs, "processing") = 0
         THEN IF CountStatus(t.jobs, "error") = 0 THEN None
              ELSE IF CountStatus(t.jobs, "completed") > 0
                   THEN OrElse(t.error, JobsFailedMsg(CountStatus(t.jobs, "error")))
              ELSE OrElse(t.error, "All screenshot jobs failed.")
         ELSE OrElse(t.error,
                     UnfinishedMsg(CountStatus(t.jobs, "pending")
                                   + CountStatus(t.jobs, "processing")))

\* ------------------------------------------------- submission handler data
\* Strings the submission handler inspects character by character are tuples
\* of one-character strings.
MaxUrls == 3        \* longest list of targets in a request
MaxDims == 2        \* longest list of dimensions in a request

\* The upper limit of waitMs in startTaskSchema.
MaxWaitMs == 5000

Digits == {"0", "1", "2", "3", "4", "5", "6", "7", "8", "9"}
Letters ==
    {"a", "b", "c", "d", "e", "f", "g", "h", "i", "j", "k", "l", "m",
     "n", "o", "p", "q", "r", "s", "t", "u", "v", "w", "x", "y", "z",
     "A", "B", "C", "D", "E", "F", "G", "H", "I", "J", "K", "L", "M",
     "N", "O", "P", "Q", "R", "S", "T", "U", "V", "W", "X", "Y", "Z"}

\* The characters the job id keeps: [a-zA-Z0-9-_].
IdChars == Letters \cup Digits \cup {"-", "_"}

\* String.prototype.trim on a string whose only whitespace is the space.
RECURSIVE Trim(_)
Trim(s) ==
    IF s = <<>> THEN s
    ELSE IF Head(s) = " " THEN Trim(Tail(s))
    ELSE IF s[Len(s)] = " " THEN Trim(SubSeq(s, 1, Len(s) - 1))
    ELSE s

\* z.string().url(): `new URL(s)` does not throw. For a string without a
\* special scheme that is: after trimming, a scheme (a letter, then letters,
\* digits, '+', '-' or '.') followed by ':'.
IsUrl(s) ==
    LET u == Trim(s) IN
    \E k \in 2..Len(u) :
        /\ u[k] = ":"
        /\ u[1] \in Letters
        /\ \A j \in 2..(k - 1) : u[j] \in Letters \cup Digits \cup {"+", "-", "."}

\* A dimension test that accepts every string.
IsDimension_Any(d) == TRUE

\* z.string().regex(/^\d+x\d+$/).
IsDimension(d) ==
    \E k \in 2..(Len(d) - 1) :
        /\ d[k] = "x"
        /\ \A j \in DOMAIN d : j # k => d[j] \in Digits

ScreenshotTypes == {"viewport", "fullPage", "both"}

\* startTaskSchema.safeParse(req.body).success
ValidPayload(req) ==
    /\ Len(req.urls) >= 1
    /\ \A k \in DOMAIN req.urls : IsUrl(req.urls[k])
    /\ Len(req.dimensions) >= 1
    /\ \A k \in DOMAIN req.dimensions : IsDimension(req.dimensions[k])
    /\ req.screenshotType \in ScreenshotTypes
    /\ req.waitMs >= 0
    /\ req.waitMs <= MaxWaitMs

\* A deduplication that keeps every element.
Dedup_KeepsAll(s) == s

\* Array.from(new Set(s)): each value once, in order of first occurrence.
RECURSIVE Dedup(_)
Dedup(s) ==
    IF s = <<>> THEN <<>>
    ELSE LET r == Dedup(SubSeq(s, 1, Len(s) - 1))
             x == s[Len(s)]
         IN IF \E k \in DOMAIN r : r[k] = x THEN r ELSE Append(r, x)

\* s.replace(/[^a-zA-Z0-9-_]/g, '_')
Sanitize(s) == [k \in DOMAIN s |-> IF s[k] \in IdChars THEN s[k] ELSE "_"]

\* `${taskId}-${url}-${dimension}` with every other character replaced.
BaseJobId(url, dimension) == Sanitize(TaskId \o <<"-">> \o url \o <<"-">> \o dimension)

\* One job as the handler pushes it; imageUrl and message are not set.
SubmittedJob(id, url, dimension, type, waitMs) ==
    [id |-> id, url |-> Trim(url), dimension |-> dimension,
     screenshotType |-> type, status |-> "pending", waitMs |-> waitMs,
     message |-> None, imageUrl |-> None]

\* A job list for one pair that holds the viewport job only.
JobsFor_ViewportOnly(url, dimension, type, waitMs) ==
    <<SubmittedJob(BaseJobId(url, dimension) \o <<"-", "v", "p">>,
                   url, dimension, "viewport", waitMs)>>

\* The body of the inner forEach: the jobs pushed for one (url, dimension).
JobsFor(url, dimension, type, waitMs) ==
    (IF type \in {"viewport", "both"}
     THEN <<SubmittedJob(BaseJobId(url, dimension) \o <<"-", "v", "p">>,
                         url, dimension, "viewport", waitMs)>>
     ELSE <<>>)
    \o
    (IF type \in {"fullPage", "both"}
     THEN <<SubmittedJob(BaseJobId(url, dimension) \o <<"-", "f", "p">>,
                         url, dimension, "fullPage", waitMs)>>
     ELSE <<>>)

RECURSIVE Flatten(_)
Flatten(ss) == IF ss = <<>> THEN <<>> ELSE Head(ss) \o Flatten(Tail(ss))

\* uniqueUrls.forEach(url => uniqueDimensions.forEach(dimension => ...))
BuildJobs(req) ==
    LET uniqueUrls == Dedup(req.urls)
        uniqueDimensions == Dedup(req.dimensions)
    IN Flatten([u \in DOMAIN uniqueUrls |->
          Flatten([d \in DOMAIN uniqueDimensions |->
              JobsFor(uniqueUrls[u], uniqueDimensions[d],
                      req.screenshotType, req.waitMs)])])

\* newTask
SubmittedTask(jobs) ==
    [taskId |-> TaskId, status |-> "pending", jobs |-> jobs,
     createdAt |-> CreatedAt, taskSpecificDir |-> TaskSpecificDir, error |-> None]

\* The submission handler's responses.
SubmitInvalidInput == [code |-> 400, error |-> "Invalid input"]
SubmitNoJobs == [code |-> 400, error |-> "No valid screenshot jobs could be generated"]
SubmitStoreFailed == [code |-> 500, error |-> "Failed to initialize task in storage"]
SubmitAccepted == [code |-> 202, taskId |-> TaskId]

\* Request bodies: two targets that are URLs and one that is not, two
\* well-formed dimensions and one malformed, the three capture modes and one
\* that is none of them, a wait time inside and one outside the limit.
UrlA == <<"a", ":", "b">>
UrlB == <<"a", ":", "c">>
UrlInputs == {UrlA, UrlB, <<"a", "b">>}
DimA == <<"1", "x", "2">>
DimInputs == {DimA, <<"3", "x", "4">>, <<"1", "x">>}
TypeInputs == ScreenshotTypes \cup {"full"}
WaitInputs == {0, MaxWaitMs + 1}

SeqsUpTo(S, n) == UNION {[1..k -> S] : k \in 0..n}

Requests ==
    [urls : SeqsUpTo(UrlInputs, MaxUrls),
     dimensions : SeqsUpTo(DimInputs, MaxDims),
     screenshotType : TypeInputs,
     waitMs : WaitInputs]

\* --------------------------------------------------- download handler data
\* A set of downloadable statuses that also takes a cancelled task.
DownloadableStatuses_WithCancelled == {"completed", "partially_completed", "cancelled"}

\* The statuses the bundle download handler lets through.
DownloadableStatuses == {"completed", "partially_completed"}

\* The download handler's responses.
DownloadTaskNotFound == [code |-> 404, error |-> "Task not found"]
DownloadNotReady == [code |-> 400, error |-> "Task is not in a downloadable state"]
DownloadNoDirectory == [code |-> 404, error |-> "Screenshots directory not found"]
DownloadArchive == [code |-> 200, contentType |-> "application/zip"]

\* Which of the task's directories exist: the saved one, the fallback only,
\* or neither.
Directories == {"saved", "fallback", "none"}

\* ------------------------------------------------------------------ state
VARIABLES
    store,          \* the record stored under the task id, or Null
    rpc,            \* runner: position in processScreenshotTask
    task,           \* runner: local `task`
    i,              \* runner: loop index (1-based)
    wasCancelled,   \* runner: local flag
    currentJob,     \* runner: id of currentJob (0 outside a job)
    result,         \* runner: what processSingleJob returned
    cpc,            \* cancel handler: position
    cres,           \* cancel handler: its last response (Null before the first)
    ctask,          \* cancel handler: local `task`
    runs,           \* invocations of processScreenshotTask so far
    cancels,        \* cancel requests received so far
    fails,          \* store writes that failed so far
    api,            \* the submission and download handlers: request, position, response
    hist            \* history of the execution, read by the properties only

vars == <<store, rpc, task, i, wasCancelled, currentJob, result, cpc, ctask, cres,
          runs, cancels, fails, api, hist>>

runnerLocals == <<task, i, wasCancelled, currentJob, result>>
cancelVars == <<cpc, ctask, cres, cancels>>

NoHist ==
    [captured |-> <<>>,      \* this run: job indexes whose capture was invoked, in order
     started |-> 0,          \* this run: jobs that passed the pre-job check
     startSnap |-> Null,     \* this run: the store as the first load found it
     finalized |-> FALSE,    \* this run: the finally block's reload was made
     runFaulted |-> FALSE,   \* this run: a fault was thrown outside the job loop
     faulted |-> FALSE,      \* some run: a fault was thrown outside the job loop
     crashes |-> 0,          \* runs that stopped without returning
     cancelWrites |-> 0,     \* completed writes of status 'cancelling'
     cancelAt |-> -1,        \* first run: `started` when the first of them completed (-1: none)
     acceptedInRun |-> FALSE,\* first run: one of them landed between its first load and its return
     afterCancel |-> 0,      \* first run: captures invoked after the first of them
     cancelDuring |-> 0,     \* first run: index of the job in flight when one of them completed
     outcomes |-> 0,         \* this run: attempted writes of a job outcome
     returned |-> 0,         \* this run: captures that returned or died with the process
     delay |-> 0,            \* the time the latest capture slept before the screenshot
     deleted |-> FALSE]      \* the record was deleted from the store

\* No submission or download request has been handled yet.
NoApi ==
    [spc |-> "idle", req |-> Null, stask |-> Null, sres |-> Null,
     dpc |-> "idle", dtask |-> Null, dres |-> Null, archive |-> FALSE]

Init ==
    /\ \E n \in 1..MaxJobs : store = NewTask(n)
    /\ rpc = "start"
    /\ task = Null
    /\ i = 0
    /\ wasCancelled = FALSE
    /\ currentJob = 0
    /\ result = NoResult
    /\ cpc = "idle"
    /\ ctask = Null
    /\ cres = Null
    /\ api = NoApi
    /\ runs = 1
    /\ cancels = 0
    /\ fails = 0
    /\ hist = NoHist

\* The first invocation so far ran undisturbed: no store call failed, nothing
\* was thrown outside the job loop and the process did not die.
UndisturbedFirstRun == runs = 1 /\ fails = 0 /\ ~hist.faulted /\ hist.crashes = 0

\* What the history keeps of the cancel request is kept for the undisturbed
\* first run only: a disturbance clears it.
FirstRunOnly(h) ==
    [h EXCEPT !.cancelAt = -1, !.cancelDuring = 0, !.acceptedInRun = FALSE,
              !.afterCancel = 0]
AfterWrite(ok, h) == IF ok THEN h ELSE FirstRunOnly(h)

\* ----------------------------------------------------------------- runner
\* Positions between the local mark of a job as processing and the reload
\* that follows its capture.
CaptureInFlight == {"processSingleJob", "capturing", "taskStateBeforeUpdate"}

\* The loop condition `i < task.jobs.length` evaluated for index k on task t:
\* the next position is the pre-job reload, or the finally block.
LoopHead(t, k) == IF k <= Len(t.jobs) THEN "latestTaskState" ELSE "finalTaskState"

\* A skip test that lets a job stored as processing through.
ShouldSkip_DoneOnly(job) == JobDone(job)

\* A skip test that lets every job through.
ShouldSkip_Never(job) == FALSE

\* `currentJob.status !== 'pending'`: the job was handled by an earlier run.
ShouldSkip(job) == job.status # "pending"

\* getTask as the runner sees it: the stored record, or null when there is
\* none or when the read failed (the store module catches the error).
GetTask(ok) == IF ok THEN store ELSE Null

\* processScreenshotTask returns: its locals go out of scope.
Return ==
    /\ rpc' = "done"
    /\ task' = Null
    /\ i' = 0
    /\ wasCancelled' = FALSE
    /\ currentJob' = 0
    /\ result' = NoResult

\* An initial load that returns early for an absent task only.
InitialGetTask_AnyStatus(ok) ==
    /\ rpc = "start"
    /\ IF ok THEN UNCHANGED fails ELSE fails < MaxFails /\ fails' = fails + 1
    /\ hist' = [hist EXCEPT !.startSnap = GetTask(ok)]
    /\ IF GetTask(ok) = Null
       THEN Return
       ELSE /\ rpc' = "setProcessing"
            /\ task' = [GetTask(ok) EXCEPT !.status = "processing", !.error = None]
            /\ UNCHANGED <<i, wasCancelled, currentJob, result>>
    /\ UNCHANGED <<store, cancelVars, runs>>
    /\ UNCHANGED api

\* An initial load that sends a task found cancelling to the finally block.
InitialGetTask_FinalizesCancelling(ok) ==
    /\ rpc = "start"
    /\ IF ok THEN UNCHANGED fails ELSE fails < MaxFails /\ fails' = fails + 1
    /\ hist' = [hist EXCEPT !.startSnap = GetTask(ok)]
    /\ IF GetTask(ok) # Null /\ GetTask(ok).status = "cancelling"
       THEN /\ rpc' = "finalTaskState"
            /\ wasCancelled' = TRUE
            /\ UNCHANGED <<task, i, currentJob, result>>
       ELSE IF GetTask(ok) = Null \/ GetTask(ok).status \notin {"pending", "processing"}
       THEN Return
       ELSE /\ rpc' = "setProcessing"
            /\ task' = [GetTask(ok) EXCEPT !.status = "processing", !.error = None]
            /\ UNCHANGED <<i, wasCancelled, currentJob, result>>
    /\ UNCHANGED <<store, cancelVars, runs>>
    /\ UNCHANGED api

\* The initial getTask, the two early returns, and the local assignment of
\* status 'processing' and error undefined.
InitialGetTask(ok) ==
    /\ rpc = "start"
    /\ IF ok THEN UNCHANGED fails ELSE fails < MaxFails /\ fails' = fails + 1
    /\ hist' = [hist EXCEPT !.startSnap = GetTask(ok)]
    /\ IF GetTask(ok) = Null \/ GetTask(ok).status \notin {"pending", "processing"}
       THEN Return
       ELSE /\ rpc' = "setProcessing"
            /\ task' = [GetTask(ok) EXCEPT !.status = "processing", !.error = None]
            /\ UNCHANGED <<i, wasCancelled, currentJob, result>>
    /\ UNCHANGED <<store, cancelVars, runs>>
    /\ UNCHANGED api

\* An initial setTask whose failure is logged only: the run goes on.
SetProcessing_GoesOn(ok) ==
    /\ rpc = "setProcessing"
    /\ IF ok
       THEN /\ store' = task
            /\ rpc' = "launch"
            /\ UNCHANGED <<runnerLocals, fails>>
       ELSE /\ fails < MaxFails
            /\ fails' = fails + 1
            /\ rpc' = "launch"
            /\ UNCHANGED <<store, runnerLocals>>
    /\ UNCHANGED <<cancelVars, runs>>
    /\ hist' = AfterWrite(ok, hist)
    /\ UNCHANGED api

\* The initial setTask; when it throws the run returns at once.
SetProcessing(ok) ==
    /\ rpc = "setProcessing"
    /\ IF ok
       THEN /\ store' = task
            /\ rpc' = "launch"
            /\ UNCHANGED <<runnerLocals, fails>>
       ELSE /\ fails < MaxFails
            /\ fails' = fails + 1
            /\ Return
            /\ UNCHANGED store
    /\ UNCHANGED <<cancelVars, runs>>
    /\ hist' = AfterWrite(ok, hist)
    /\ UNCHANGED api

\* A launch whose fault is swallowed: the job loop starts all the same.
Launch_SwallowsFault(ok) ==
    /\ rpc = "launch"
    /\ IF ok
       THEN /\ i' = 1
            /\ rpc' = LoopHead(task, 1)
            /\ UNCHANGED hist
       ELSE /\ i' = 1
            /\ rpc' = LoopHead(task, 1)
            /\ hist' = FirstRunOnly([hist EXCEPT !.faulted = TRUE, !.runFaulted = TRUE])
    /\ UNCHANGED <<store, task, wasCancelled, currentJob, result, cancelVars, runs, fails>>
    /\ UNCHANGED api

\* getBrowser and browser.newPage: they succeed and the loop starts at index 0,
\* or one of them throws and control passes to the outer catch.
Launch(ok) ==
    /\ rpc = "launch"
    /\ IF ok
       THEN /\ i' = 1
            /\ rpc' = LoopHead(task, 1)
            /\ UNCHANGED hist
       ELSE /\ rpc' = "taskOnError"
            /\ hist' = FirstRunOnly([hist EXCEPT !.faulted = TRUE, !.runFaulted = TRUE])
            /\ UNCHANGED i
    /\ UNCHANGED <<store, task, wasCancelled, currentJob, result, cancelVars, runs, fails>>
    /\ UNCHANGED api

\* A pre-job reload that is made again for as long as it finds no record.
LatestTaskState_Retries(ok) ==
    /\ rpc = "latestTaskState"
    /\ IF ok THEN UNCHANGED fails ELSE fails < MaxFails /\ fails' = fails + 1
    /\ IF GetTask(ok) = Null
       THEN /\ rpc' = "latestTaskState"
            /\ UNCHANGED <<task, i, wasCancelled, currentJob, hist>>
       ELSE IF GetTask(ok).status \in {"cancelling", "cancelled"}
       THEN /\ task' = GetTask(ok)
            /\ wasCancelled' = TRUE
            /\ rpc' = "finalTaskState"
            /\ UNCHANGED <<i, currentJob, hist>>
       ELSE IF i \notin DOMAIN GetTask(ok).jobs \/ ShouldSkip(GetTask(ok).jobs[i])
       THEN /\ task' = GetTask(ok)
            /\ i' = i + 1
            /\ rpc' = LoopHead(GetTask(ok), i + 1)
            /\ UNCHANGED <<wasCancelled, currentJob, hist>>
       ELSE /\ task' = [GetTask(ok) EXCEPT !.jobs[i].status = "processing"]
            /\ currentJob' = GetTask(ok).jobs[i].id
            /\ rpc' = "setJobProcessing"
            /\ hist' = [hist EXCEPT !.started = @ + 1]
            /\ UNCHANGED <<i, wasCancelled>>
    /\ UNCHANGED <<store, result, cancelVars, runs>>
    /\ UNCHANGED api

\* The pre-job reload: vanished task, cancellation check, index lookup, skip of
\* a job that is not pending, and the local assignment of job status processing.
LatestTaskState(ok) ==
    /\ rpc = "latestTaskState"
    /\ IF ok THEN UNCHANGED fails ELSE fails < MaxFails /\ fails' = fails + 1
    /\ IF GetTask(ok) = Null
       THEN /\ wasCancelled' = TRUE
            /\ rpc' = "finalTaskState"
            /\ UNCHANGED <<task, i, currentJob, hist>>
       ELSE IF GetTask(ok).status \in {"cancelling", "cancelled"}
       THEN /\ task' = GetTask(ok)
            /\ wasCancelled' = TRUE
            /\ rpc' = "finalTaskState"
            /\ UNCHANGED <<i, currentJob, hist>>
       ELSE IF i \notin DOMAIN GetTask(ok).jobs \/ ShouldSkip(GetTask(ok).jobs[i])
       THEN /\ task' = GetTask(ok)
            /\ i' = i + 1
            /\ rpc' = LoopHead(GetTask(ok), i + 1)
            /\ UNCHANGED <<wasCancelled, currentJob, hist>>
       ELSE /\ task' = [GetTask(ok) EXCEPT !.jobs[i].status = "processing"]
            /\ currentJob' = GetTask(ok).jobs[i].id
            /\ rpc' = "setJobProcessing"
            /\ hist' = [hist EXCEPT !.started = @ + 1]
            /\ UNCHANGED <<i, wasCancelled>>
    /\ UNCHANGED <<store, result, cancelVars, runs>>
    /\ UNCHANGED api

\* A bookkeeping write whose failure ends the job loop.
SetJobProcessing_Aborts(ok) ==
    /\ rpc = "setJobProcessing"
    /\ IF ok
       THEN store' = task /\ UNCHANGED fails
       ELSE fails < MaxFails /\ fails' = fails + 1 /\ UNCHANGED store
    /\ rpc' = IF ok THEN "processSingleJob" ELSE "finalTaskState"
    /\ UNCHANGED <<runnerLocals, cancelVars, runs>>
    /\ hist' = AfterWrite(ok, hist)
    /\ UNCHANGED api

\* The setTask that records the job as processing; a failure is logged only.
SetJobProcessing(ok) ==
    /\ rpc = "setJobProcessing"
    /\ IF ok
       THEN store' = task /\ UNCHANGED fails
       ELSE fails < MaxFails /\ fails' = fails + 1 /\ UNCHANGED store
    /\ rpc' = "processSingleJob"
    /\ UNCHANGED <<runnerLocals, cancelVars, runs>>
    /\ hist' = AfterWrite(ok, hist)
    /\ UNCHANGED api

\* A capture that is started but not awaited: the runner goes on to the
\* post-capture reload at once.
InvokeProcessSingleJob_NotAwaited ==
    /\ rpc = "processSingleJob"
    /\ rpc' = "taskStateBeforeUpdate"
    /\ hist' = [hist EXCEPT
                  !.captured = Append(@, i),
                  !.afterCancel = IF hist.cancelWrites > 0 /\ UndisturbedFirstRun
                                 THEN @ + 1 ELSE @]
    /\ UNCHANGED <<store, runnerLocals, cancelVars, runs, fails>>
    /\ UNCHANGED api

\* processSingleJob is invoked for job i.
InvokeProcessSingleJob ==
    /\ rpc = "processSingleJob"
    /\ rpc' = "capturing"
    /\ hist' = [hist EXCEPT
                  !.captured = Append(@, i),
                  !.afterCancel = IF hist.cancelWrites > 0 /\ UndisturbedFirstRun
                                 THEN @ + 1 ELSE @]
    /\ UNCHANGED <<store, runnerLocals, cancelVars, runs, fails>>
    /\ UNCHANGED api

\* processSingleJob resolves (it never rejects) with a result that the job
\* and the outcome of its steps allow.
ProcessSingleJobReturns(out) ==
    /\ rpc = "capturing"
    /\ \E dirOk, pageOk \in BOOLEAN : out = ProcessSingleJob(task.jobs[i], dirOk, pageOk)
    /\ result' = out
    /\ rpc' = "taskStateBeforeUpdate"
    /\ \E slept \in BOOLEAN :
          /\ out = CaptureCompleted => slept
          /\ out \in {DirectoryError, DimensionError} => ~slept
          /\ hist' = [hist EXCEPT
                        !.returned = @ + 1,
                        !.delay = IF slept THEN DelayApplied(task.jobs[i]) ELSE 0]
    /\ UNCHANGED <<store, task, i, wasCancelled, currentJob, cancelVars, runs, fails>>
    /\ UNCHANGED api

\* A post-capture reload that drops the capture's outcome when it finds the
\* task cancelling.
TaskStateBeforeUpdate_BreaksOnCancel(ok) ==
    /\ rpc = "taskStateBeforeUpdate"
    /\ IF ok THEN UNCHANGED fails ELSE fails < MaxFails /\ fails' = fails + 1
    /\ IF GetTask(ok) = Null \/ GetTask(ok).status = "cancelling"
       THEN /\ wasCancelled' = TRUE
            /\ rpc' = "finalTaskState"
            /\ UNCHANGED <<task, i>>
       ELSE LET jobIndex == FindIndex(GetTask(ok).jobs, currentJob) IN
            IF jobIndex = 0
            THEN /\ task' = GetTask(ok)
                 /\ i' = i + 1
                 /\ rpc' = LoopHead(GetTask(ok), i + 1)
                 /\ UNCHANGED wasCancelled
            ELSE /\ task' = [GetTask(ok) EXCEPT !.jobs[jobIndex] = MergeResult(@, result)]
                 /\ rpc' = "setJobResult"
                 /\ UNCHANGED <<i, wasCancelled>>
    /\ UNCHANGED <<store, currentJob, result, cancelVars, runs, hist>>
    /\ UNCHANGED api

\* The post-capture reload, the lookup of the job by id and the merge of the
\* result into the reloaded task.
TaskStateBeforeUpdate(ok) ==
    /\ rpc = "taskStateBeforeUpdate"
    /\ IF ok THEN UNCHANGED fails ELSE fails < MaxFails /\ fails' = fails + 1
    /\ IF GetTask(ok) = Null
       THEN /\ wasCancelled' = TRUE
            /\ rpc' = "finalTaskState"
            /\ UNCHANGED <<task, i>>
       ELSE LET jobIndex == FindIndex(GetTask(ok).jobs, currentJob) IN
            IF jobIndex = 0
            THEN /\ task' = GetTask(ok)
                 /\ i' = i + 1
                 /\ rpc' = LoopHead(GetTask(ok), i + 1)
                 /\ UNCHANGED wasCancelled
            ELSE /\ task' = [GetTask(ok) EXCEPT !.jobs[jobIndex] = MergeResult(@, result)]
                 /\ rpc' = "setJobResult"
                 /\ UNCHANGED <<i, wasCancelled>>
    /\ UNCHANGED <<store, currentJob, result, cancelVars, runs, hist>>
    /\ UNCHANGED api

\* The setTask that persists the job result (a failure is logged only) and the
\* re-check of the local task's status right after it.
SetJobResult(ok) ==
    /\ rpc = "setJobResult"
    /\ IF ok
       THEN store' = task /\ UNCHANGED fails
       ELSE fails < MaxFails /\ fails' = fails + 1 /\ UNCHANGED store
    /\ IF task.status = "cancelling"
       THEN /\ wasCancelled' = TRUE
            /\ rpc' = "finalTaskState"
            /\ UNCHANGED i
       ELSE /\ i' = i + 1
            /\ rpc' = LoopHead(task, i + 1)
            /\ UNCHANGED wasCancelled
    /\ hist' = [AfterWrite(ok, hist) EXCEPT !.outcomes = @ + 1]
    /\ UNCHANGED <<task, currentJob, result, cancelVars, runs>>
    /\ UNCHANGED api

\* The outer catch: reload, and unless the task is gone or being cancelled,
\* prepare status error with the diagnostic. `task` holds taskOnError from here
\* on (the runner's own `task` is only logged after this point).
TaskOnError(ok) ==
    /\ rpc = "taskOnError"
    /\ IF ok THEN UNCHANGED fails ELSE fails < MaxFails /\ fails' = fails + 1
    /\ IF GetTask(ok) # Null /\ GetTask(ok).status \notin {"cancelled", "cancelling"}
       THEN /\ task' = [GetTask(ok) EXCEPT !.status = "error",
                                          !.error = "Processing failed: launch error"]
            /\ rpc' = "setTaskOnError"
       ELSE /\ rpc' = "finalTaskState"
            /\ UNCHANGED task
    /\ UNCHANGED <<store, i, wasCancelled, currentJob, result, cancelVars, runs, hist>>
    /\ UNCHANGED api

\* The catch block's setTask; its failure is caught by the inner try.
SetTaskOnError(ok) ==
    /\ rpc = "setTaskOnError"
    /\ IF ok
       THEN store' = task /\ UNCHANGED fails
       ELSE fails < MaxFails /\ fails' = fails + 1 /\ UNCHANGED store
    /\ rpc' = "finalTaskState"
    /\ UNCHANGED <<runnerLocals, cancelVars, runs>>
    /\ hist' = AfterWrite(ok, hist)
    /\ UNCHANGED api

\* A finally block that writes whatever it computed.
FinalTaskState_AlwaysWrites(ok) ==
    /\ rpc = "finalTaskState"
    /\ IF ok THEN UNCHANGED fails ELSE fails < MaxFails /\ fails' = fails + 1
    /\ hist' = [hist EXCEPT !.finalized = TRUE]
    /\ IF GetTask(ok) = Null
       THEN Return
       ELSE /\ task' = [GetTask(ok) EXCEPT !.status = FinalStatus(wasCancelled, GetTask(ok)),
                                          !.error = FinalError(wasCancelled, GetTask(ok))]
            /\ rpc' = "setFinal"
            /\ UNCHANGED <<i, wasCancelled, currentJob, result>>
    /\ UNCHANGED <<store, cancelVars, runs>>
    /\ UNCHANGED api

\* The finally block: final reload, computation of the final status and error,
\* and the decision whether to write.
FinalTaskState(ok) ==
    /\ rpc = "finalTaskState"
    /\ IF ok THEN UNCHANGED fails ELSE fails < MaxFails /\ fails' = fails + 1
    /\ hist' = [hist EXCEPT !.finalized = TRUE]
    /\ IF GetTask(ok) = Null
       THEN Return
       ELSE LET finalStatus == FinalStatus(wasCancelled, GetTask(ok))
                finalError == FinalError(wasCancelled, GetTask(ok))
            IN  IF GetTask(ok).status # finalStatus \/ GetTask(ok).error # finalError
                THEN /\ task' = [GetTask(ok) EXCEPT !.status = finalStatus,
                                                   !.error = finalError]
                     /\ rpc' = "setFinal"
                     /\ UNCHANGED <<i, wasCancelled, currentJob, result>>
                ELSE Return
    /\ UNCHANGED <<store, cancelVars, runs>>
    /\ UNCHANGED api

\* The final setTask; its failure is caught and logged. The run returns.
SetFinal(ok) ==
    /\ rpc = "setFinal"
    /\ IF ok
       THEN store' = task /\ UNCHANGED fails
       ELSE fails < MaxFails /\ fails' = fails + 1 /\ UNCHANGED store
    /\ Return
    /\ UNCHANGED <<cancelVars, runs>>
    /\ hist' = AfterWrite(ok, hist)
    /\ UNCHANGED api

\* The process running the runner dies between two of its steps.
Crash ==
    /\ rpc \notin {"start", "done", "crashed"}
    /\ rpc' = "crashed"
    /\ task' = Null
    /\ i' = 0
    /\ wasCancelled' = FALSE
    /\ currentJob' = 0
    /\ result' = NoResult
    /\ hist' = FirstRunOnly([hist EXCEPT !.crashes = @ + 1,
                                        !.returned = Len(hist.captured)])
    /\ UNCHANGED <<store, cancelVars, runs, fails>>
    /\ UNCHANGED api

\* processScreenshotTask is invoked again for the same task id.
Restart ==
    /\ rpc \in {"done", "crashed"}
    /\ runs < MaxRuns
    /\ runs' = runs + 1
    /\ rpc' = "start"
    /\ hist' = FirstRunOnly([hist EXCEPT
                                !.captured = <<>>, !.started = 0, !.startSnap = Null,
                                !.finalized = FALSE, !.runFaulted = FALSE,
                                !.outcomes = 0, !.returned = 0])
    /\ UNCHANGED <<store, runnerLocals, cancelVars, fails>>
    /\ UNCHANGED api

\* ------------------------------------------------------------ store module
\* deleteTask(taskId), called by whoever administers the store.
DeleteTask ==
    /\ store # Null
    /\ store' = Null
    /\ hist' = [hist EXCEPT !.deleted = TRUE]
    /\ UNCHANGED <<rpc, runnerLocals, cancelVars, runs, fails>>
    /\ UNCHANGED api

\* A cancel handler that records the reason and leaves the status as it is.
CancelGetTaskWithin_KeepsStatus(limit) ==
    /\ cpc \in {"idle", "done"}
    /\ cancels < limit
    /\ cancels' = cancels + 1
    /\ IF store = Null
       THEN /\ ctask' = Null
            /\ cpc' = "done"
            /\ cres' = CancelNotFound
       ELSE IF store.status \in CancellableStatuses
       THEN /\ ctask' = [store EXCEPT !.error = CancelReason]
            /\ cpc' = "setTask"
            /\ cres' = Null
       ELSE /\ ctask' = Null
            /\ cpc' = "done"
            /\ cres' = CancelAlreadyFinal
    /\ UNCHANGED <<store, rpc, runnerLocals, runs, fails, hist>>
    /\ UNCHANGED api

\* ---------------------------------------------------------- cancel handler
\* getTask, the not-found and not-cancellable acknowledgements, and the local
\* assignment of status 'cancelling' with the cancellation reason.
\* `limit` bounds the requests received.
CancelGetTaskWithin(limit) ==
    /\ cpc \in {"idle", "done"}
    /\ cancels < limit
    /\ cancels' = cancels + 1
    /\ IF store = Null
       THEN /\ ctask' = Null
            /\ cpc' = "done"
            /\ cres' = CancelNotFound
       ELSE IF store.status \in CancellableStatuses
       THEN /\ ctask' = [store EXCEPT !.status = "cancelling", !.error = CancelReason]
            /\ cpc' = "setTask"
            /\ cres' = Null
       ELSE /\ ctask' = Null
            /\ cpc' = "done"
            /\ cres' = CancelAlreadyFinal
    /\ UNCHANGED <<store, rpc, runnerLocals, runs, fails, hist>>
    /\ UNCHANGED api

\* The cancel handler in the specifications that bound its requests by MaxCancels.
CancelGetTask == CancelGetTaskWithin(MaxCancels)

\* The handler's setTask: 'cancellation initiated', or a 500 when it throws.
CancelSetTask(ok) ==
    /\ cpc = "setTask"
    /\ IF ok
       THEN /\ store' = ctask
            /\ hist' = IF UndisturbedFirstRun
                       THEN [hist EXCEPT
                               !.cancelWrites = @ + 1,
                               !.cancelAt = IF @ = -1 THEN hist.started ELSE @,
                               !.cancelDuring = IF rpc \in CaptureInFlight THEN i ELSE @,
                               !.acceptedInRun =
                                   @ \/ rpc \notin {"start", "done", "crashed"}]
                       ELSE [hist EXCEPT !.cancelWrites = @ + 1]
            /\ UNCHANGED fails
       ELSE /\ fails < MaxFails
            /\ fails' = fails + 1
            /\ hist' = FirstRunOnly(hist)
            /\ UNCHANGED store
    /\ cres' = IF ok THEN CancelInitiated ELSE CancelFailed
    /\ cpc' = "done"
    /\ ctask' = Null
    /\ UNCHANGED <<rpc, runnerLocals, runs, cancels>>
    /\ UNCHANGED api

\* ------------------------------------------------------ submission handler
\* safeParse of the body, deduplication, uuid, the job list and newTask; a
\* body the schema rejects and an empty job list are answered with 400.
SubmitBuild(req) ==
    /\ api.spc = "idle"
    /\ store = Null
    /\ IF ~ValidPayload(req)
       THEN api' = [api EXCEPT !.req = req, !.stask = Null,
                               !.sres = SubmitInvalidInput, !.spc = "done"]
       ELSE IF Len(BuildJobs(req)) = 0
       THEN api' = [api EXCEPT !.req = req, !.stask = Null,
                               !.sres = SubmitNoJobs, !.spc = "done"]
       ELSE api' = [api EXCEPT !.req = req, !.stask = SubmittedTask(BuildJobs(req)),
                               !.sres = Null, !.spc = "setTask"]
    /\ UNCHANGED <<store, rpc, runnerLocals, cancelVars, runs, fails, hist>>

\* setTask(taskId, newTask): stored, or a 500 when it throws.
SubmitSetTask(ok) ==
    /\ api.spc = "setTask"
    /\ IF ok
       THEN /\ store' = api.stask
            /\ api' = [api EXCEPT !.spc = "startRunner"]
            /\ UNCHANGED fails
       ELSE /\ fails < MaxFails
            /\ fails' = fails + 1
            /\ api' = [api EXCEPT !.sres = SubmitStoreFailed, !.spc = "done"]
            /\ UNCHANGED store
    /\ UNCHANGED <<rpc, runnerLocals, cancelVars, runs, hist>>

\* processScreenshotTask(taskId) is started without being awaited and the
\* handler answers 202.
SubmitStartRunner ==
    /\ api.spc = "startRunner"
    /\ rpc' = "start"
    /\ api' = [api EXCEPT !.sres = SubmitAccepted, !.spc = "done"]
    /\ UNCHANGED <<store, runnerLocals, cancelVars, runs, fails, hist>>

\* -------------------------------------------------------- download handler
\* getTask and the two checks on what it returned.
DownloadGetTask ==
    /\ api.dpc \in {"idle", "done"}
    /\ IF store = Null
       THEN api' = [api EXCEPT !.dtask = Null, !.archive = FALSE,
                               !.dres = DownloadTaskNotFound, !.dpc = "done"]
       ELSE IF store.status \notin DownloadableStatuses
       THEN api' = [api EXCEPT !.dtask = store, !.archive = FALSE,
                               !.dres = DownloadNotReady, !.dpc = "done"]
       ELSE api' = [api EXCEPT !.dtask = store, !.archive = FALSE,
                               !.dres = Null, !.dpc = "existsSync"]
    /\ UNCHANGED <<store, rpc, runnerLocals, cancelVars, runs, fails, hist>>

\* The directory checks and the archive piped to the response.
DownloadStream(dir) ==
    /\ api.dpc = "existsSync"
    /\ IF dir = "none"
       THEN api' = [api EXCEPT !.dres = DownloadNoDirectory, !.dpc = "done"]
       ELSE api' = [api EXCEPT !.dres = DownloadArchive, !.archive = TRUE,
                               !.dpc = "done"]
    /\ UNCHANGED <<store, rpc, runnerLocals, cancelVars, runs, fails, hist>>

\* ---------------------------------------------------------- specification
Next ==
    \/ InitialGetTask(TRUE)
    \/ \E ok \in BOOLEAN : SetProcessing(ok)
    \/ \E ok \in BOOLEAN : Launch(ok)
    \/ LatestTaskState(TRUE)
    \/ \E ok \in BOOLEAN : SetJobProcessing(ok)
    \/ InvokeProcessSingleJob
    \/ \E out \in CaptureOutcomes : ProcessSingleJobReturns(out)
    \/ TaskStateBeforeUpdate(TRUE)
    \/ \E ok \in BOOLEAN : SetJobResult(ok)
    \/ TaskOnError(TRUE)
    \/ \E ok \in BOOLEAN : SetTaskOnError(ok)
    \/ FinalTaskState(TRUE)
    \/ \E ok \in BOOLEAN : SetFinal(ok)
    \/ Crash
    \/ Restart
    \/ CancelGetTask
    \/ \E ok \in BOOLEAN : CancelSetTask(ok)

Spec == Init /\ [][Next]_vars

\* The submission handler alone, on a task id that is not stored yet; the
\* runner is not invoked until the handler starts it.
InitSubmit ==
    /\ store = Null
    /\ rpc = "idle"
    /\ task = Null
    /\ i = 0
    /\ wasCancelled = FALSE
    /\ currentJob = 0
    /\ result = NoResult
    /\ cpc = "idle"
    /\ ctask = Null
    /\ cres = Null
    /\ api = NoApi
    /\ runs = 1
    /\ cancels = 0
    /\ fails = 0
    /\ hist = NoHist

NextSubmit ==
    \/ api.spc = "idle" /\ \E req \in Requests : SubmitBuild(req)
    \/ \E ok \in BOOLEAN : SubmitSetTask(ok)
    \/ SubmitStartRunner

SpecSubmit == InitSubmit /\ [][NextSubmit]_vars

\* The submission handler on requests whose targets differ in a character
\* that the job id does not keep: a:b.c and a:b/c stand for two pages of one
\* site such as https://h/b.c and https://h/b/c.
UrlDot == <<"a", ":", "b", ".", "c">>
UrlSlash == <<"a", ":", "b", "/", "c">>
IdRequests ==
    [urls : SeqsUpTo({UrlA, UrlDot, UrlSlash}, MaxUrls),
     dimensions : SeqsUpTo({DimA, <<"3", "x", "4">>}, MaxDims),
     screenshotType : ScreenshotTypes,
     waitMs : {0}]

NextIds ==
    \/ api.spc = "idle" /\ \E req \in IdRequests : SubmitBuild(req)
    \/ \E ok \in BOOLEAN : SubmitSetTask(ok)
    \/ SubmitStartRunner

SpecIds == InitSubmit /\ [][NextIds]_vars

\* Job lists the runner stores: jobs that are completed or error, then at most
\* one that is processing, then pending ones.
JobShapes(id) ==
    UNION {{j, [j EXCEPT !.status = "processing"]}
           \cup {MergeResult(j, ProcessSingleJob(j, dirOk, pageOk)) : dirOk, pageOk \in BOOLEAN}
           : j \in {[NewJob(id) EXCEPT !.dimension = d] : d \in {DimOk, DimZero}}}

StoredJobs ==
    UNION {{js \in [1..n -> UNION {JobShapes(id) : id \in 1..n}] :
               /\ \A j \in 1..n : js[j].id = j
               /\ \A j \in 1..(n - 1) :
                     \/ JobDone(js[j])
                     \/ js[j + 1].status = "pending"}
           : n \in 1..MaxJobs}

\* Records of a task that is not finished: as submitted, as the runner stores
\* it, and as the cancel handler stores it.
RunningTasks ==
    {NewTask(n) : n \in 1..MaxJobs}
    \cup {[NewTask(1) EXCEPT !.status = "processing", !.jobs = js] : js \in StoredJobs}
    \cup {[NewTask(1) EXCEPT !.status = "cancelling", !.error = CancelReason, !.jobs = js]
             : js \in StoredJobs}

\* Records the runner leaves: a launch fault recorded by the catch block, and
\* what the finally block makes of a cancelling task, of a task whose jobs
\* are all done, and of a task recorded as failed.
FailedTasks ==
    {[NewTask(n) EXCEPT !.status = "error", !.error = "Processing failed: launch error"]
        : n \in 1..MaxJobs}

FinishedTasks ==
    {[t EXCEPT !.status = FinalStatus(t.status = "cancelling", t),
               !.error = FinalError(t.status = "cancelling", t)]
        : t \in {r \in RunningTasks \cup FailedTasks :
                    \/ r.status \in {"cancelling", "error"}
                    \/ r.status = "processing" /\ AllJobsDone(r)}}

StoredTasks == RunningTasks \cup FinishedTasks

\* The cancel and download handlers on a task id that is absent or holds any
\* record of a task's life; the runner takes no step.
InitApi ==
    /\ store \in {Null} \cup StoredTasks
    /\ rpc = "idle"
    /\ task = Null
    /\ i = 0
    /\ wasCancelled = FALSE
    /\ currentJob = 0
    /\ result = NoResult
    /\ cpc = "idle"
    /\ ctask = Null
    /\ cres = Null
    /\ api = NoApi
    /\ runs = 1
    /\ cancels = 0
    /\ fails = 0
    /\ hist = NoHist

NextApi ==
    \/ CancelGetTask
    \/ \E ok \in BOOLEAN : CancelSetTask(ok)
    \/ DownloadGetTask
    \/ \E dir \in Directories : DownloadStream(dir)

SpecApi == InitApi /\ [][NextApi]_vars

\* The cancel handler alone, requested once more than MaxCancels times in
\* sequence, on a task id that is absent or holds any record of a task's life.
NextCancelAgain ==
    \/ CancelGetTaskWithin(MaxCancels + 1)
    \/ \E ok \in BOOLEAN : CancelSetTask(ok)

SpecCancelAgain == InitApi /\ [][NextCancelAgain]_vars

\* One invocation of the runner for a task id that is absent or holds any
\* record of a task's life; store reads and writes may fail and the record
\* may be deleted at any moment. No cancel request is made.
InitRun ==
    /\ store \in {Null} \cup StoredTasks
    /\ rpc = "start"
    /\ task = Null
    /\ i = 0
    /\ wasCancelled = FALSE
    /\ currentJob = 0
    /\ result = NoResult
    /\ cpc = "idle"
    /\ ctask = Null
    /\ cres = Null
    /\ api = NoApi
    /\ runs = 1
    /\ cancels = 0
    /\ fails = 0
    /\ hist = NoHist

NextRun ==
    \/ \E ok \in BOOLEAN : InitialGetTask(ok)
    \/ \E ok \in BOOLEAN : SetProcessing(ok)
    \/ \E ok \in BOOLEAN : Launch(ok)
    \/ \E ok \in BOOLEAN : LatestTaskState(ok)
    \/ \E ok \in BOOLEAN : SetJobProcessing(ok)
    \/ InvokeProcessSingleJob
    \/ \E out \in JobResults : ProcessSingleJobReturns(out)
    \/ \E ok \in BOOLEAN : TaskStateBeforeUpdate(ok)
    \/ \E ok \in BOOLEAN : SetJobResult(ok)
    \/ \E ok \in BOOLEAN : TaskOnError(ok)
    \/ \E ok \in BOOLEAN : SetTaskOnError(ok)
    \/ \E ok \in BOOLEAN : FinalTaskState(ok)
    \/ \E ok \in BOOLEAN : SetFinal(ok)
    \/ DeleteTask

SpecRun == InitRun /\ [][NextRun]_vars

\* The same invocation when every call the runner awaits returns: a step of
\* the runner that can be taken is taken in the end. Nothing is assumed of
\* whoever deletes the record.
RunnerStep ==
    \/ \E ok \in BOOLEAN : InitialGetTask(ok)
    \/ \E ok \in BOOLEAN : SetProcessing(ok)
    \/ \E ok \in BOOLEAN : Launch(ok)
    \/ \E ok \in BOOLEAN : LatestTaskState(ok)
    \/ \E ok \in BOOLEAN : SetJobProcessing(ok)
    \/ InvokeProcessSingleJob
    \/ \E out \in JobResults : ProcessSingleJobReturns(out)
    \/ \E ok \in BOOLEAN : TaskStateBeforeUpdate(ok)
    \/ \E ok \in BOOLEAN : SetJobResult(ok)
    \/ \E ok \in BOOLEAN : TaskOnError(ok)
    \/ \E ok \in BOOLEAN : SetTaskOnError(ok)
    \/ \E ok \in BOOLEAN : FinalTaskState(ok)
    \/ \E ok \in BOOLEAN : SetFinal(ok)

SpecRunFair == InitRun /\ [][NextRun]_vars /\ WF_vars(RunnerStep)

\* One invocation of the runner on a pending task whose jobs carry any
\* stored waitMs: missing, negative, zero, inside the limit of the schema, at
\* the ceiling and above it.
WaitValues == {-1, 0, 1, WaitCeiling - 1, WaitCeiling, WaitCeiling + 1, 12 * WaitCeiling}

WaitJobs(id) ==
    {[NewJob(id) EXCEPT !.waitMs = w] : w \in WaitValues}
    \cup {[k \in DOMAIN NewJob(id) \ {"waitMs"} |-> NewJob(id)[k]]}

WaitTasks ==
    UNION {{[NewTask(n) EXCEPT !.jobs = js] :
               js \in {f \in [1..n -> UNION {WaitJobs(id) : id \in 1..n}] :
                          \A j \in 1..n : f[j].id = j}}
           : n \in 1..MaxJobs}

InitWait ==
    /\ store \in WaitTasks
    /\ rpc = "start"
    /\ task = Null
    /\ i = 0
    /\ wasCancelled = FALSE
    /\ currentJob = 0
    /\ result = NoResult
    /\ cpc = "idle"
    /\ ctask = Null
    /\ cres = Null
    /\ api = NoApi
    /\ runs = 1
    /\ cancels = 0
    /\ fails = 0
    /\ hist = NoHist

SpecWait == InitWait /\ [][NextRun]_vars

\* The finally block entered on its own: the cancellation flag is either
\* value and the final reload finds no record or a record of any status, with
\* or without an error text, whose jobs are in any combination of states.
TaskStatuses ==
    {"pending", "processing", "completed", "partially_completed", "error",
     "cancelling", "cancelled"}

FinalJobs ==
    UNION {{js \in [1..n -> UNION {JobShapes(id) : id \in 1..n}] :
               \A j \in 1..n : js[j].id = j}
           : n \in 1..MaxJobs}

FinalTasks ==
    {[NewTask(1) EXCEPT !.status = s, !.error = e, !.jobs = js]
        : s \in TaskStatuses, e \in {None, CancelReason}, js \in FinalJobs}

InitFinal ==
    /\ store \in {Null} \cup FinalTasks
    /\ rpc = "finalTaskState"
    /\ task = Null
    /\ i = 0
    /\ wasCancelled \in BOOLEAN
    /\ currentJob = 0
    /\ result = NoResult
    /\ cpc = "idle"
    /\ ctask = Null
    /\ cres = Null
    /\ api = NoApi
    /\ runs = 1
    /\ cancels = 0
    /\ fails = 0
    /\ hist = NoHist

NextFinal ==
    \/ \E ok \in BOOLEAN : FinalTaskState(ok)
    \/ \E ok \in BOOLEAN : SetFinal(ok)

SpecFinal == InitFinal /\ [][NextFinal]_vars

\* ------------------------------------------------------------ properties

\* The first invocation on the fresh task ran alone: no write failed, nothing
\* was thrown outside the job loop, the process did not die, and at most one
\* cancel request was received.
SingleCleanRun ==
    /\ runs = 1
    /\ fails = 0
    /\ ~hist.faulted
    /\ hist.crashes = 0
    /\ cancels <= 1

\* C1 (terminality, P1): once the run has returned and the one cancel request
\* (if any) has been answered, the stored status is terminal.
C1_Terminality ==
    (SingleCleanRun /\ rpc = "done" /\ cpc \in {"idle", "done"})
        => store.status \in TerminalStatuses

\* C2 (cancellation honored, P3): when the write of 'cancelling' completed
\* during the run before job k was started, no job from k on is captured; after
\* the run those jobs are pending and the stored status is cancelled.
C2_CancellationHonored ==
    (SingleCleanRun /\ hist.acceptedInRun)
        => /\ Len(hist.captured) <= hist.cancelAt
           /\ (rpc = "done" /\ hist.cancelAt < Len(store.jobs))
                 => /\ store.status = "cancelled"
                    /\ \A k \in DOMAIN store.jobs :
                          k > hist.cancelAt => store.jobs[k].status = "pending"

\* C3: a cancel request accepted while the run was in progress, with a job
\* still to be started (so a check point lay ahead), ends in stored status
\* cancelled.
C3_AcceptedCancelFinalizesCancelled ==
    (SingleCleanRun /\ rpc = "done" /\ hist.acceptedInRun
        /\ hist.cancelAt < Len(store.jobs))
        => store.status = "cancelled"

\* C4 (status correctness, P2): after an undisturbed run on a fresh task every
\* job is completed or error, and the stored status is completed with no error
\* job, partially_completed with both kinds, error with no completed job.
C4_StatusCorrectness ==
    (SingleCleanRun /\ cancels = 0 /\ rpc = "done")
        => /\ AllJobsDone(store)
           /\ store.status =
                 IF \A j \in DOMAIN store.jobs : store.jobs[j].status = "completed"
                 THEN "completed"
                 ELSE IF \E j \in DOMAIN store.jobs : store.jobs[j].status = "completed"
                 THEN "partially_completed"
                 ELSE "error"

C4_Witness ==
    /\ SingleCleanRun /\ cancels = 0 /\ rpc = "done"
    /\ store.status = "partially_completed"
    /\ \E j \in DOMAIN store.jobs : store.jobs[j].status = "error"

\* The resume point of a stored task: k such that jobs 1..k are completed or
\* error and jobs k+1..n are pending.
IsResumePoint(t, k) ==
    /\ \A j \in DOMAIN t.jobs : j <= k => JobDone(t.jobs[j])
    /\ \A j \in DOMAIN t.jobs : j > k => t.jobs[j].status = "pending"

\* The current run was invoked on a stored task with status processing whose
\* resume point is k.
ResumedAt(k) ==
    /\ hist.startSnap # Null
    /\ hist.startSnap.status = "processing"
    /\ k \in 0..Len(hist.startSnap.jobs)
    /\ IsResumePoint(hist.startSnap, k)

C6_SafeResume ==
    (hist.crashes >= 1 /\ rpc = "done" /\ fails = 0 /\ cancels <= 1
        /\ cpc \in {"idle", "done"})
        => store.status \in TerminalStatuses

\* C7 (append-only finality): once the stored status is terminal, no step
\* changes the stored task status or the stored status of a job.
C7_Finality ==
    [][(store # Null /\ store.status \in TerminalStatuses)
          => /\ store' # Null
             /\ store'.status = store.status
             /\ \A j \in DOMAIN store.jobs :
                   store'.jobs[j].status = store.jobs[j].status]_vars

\* C8: after a completed write of 'cancelling', at most one capture is
\* started.
C8_AtMostOneMoreCapture == hist.afterCancel <= 1

\* C9 as stated: a terminal stored status implies that every job is completed
\* or error or that a fault was thrown outside the job loop, and a job list
\* that is all completed or error implies a terminal stored status.
C9_TerminalIffJobsDone ==
    store # Null =>
        /\ store.status \in TerminalStatuses => (AllJobsDone(store) \/ hist.faulted)
        /\ AllJobsDone(store) => store.status \in TerminalStatuses

\* C9 as amended: a stored status of completed or partially_completed implies
\* that every job is completed or error.
C9_BundleStatusImpliesJobsDone ==
    (store # Null /\ store.status \in {"completed", "partially_completed"})
        => AllJobsDone(store)

C9_Witness ==
    /\ store.status = "partially_completed"
    /\ AllJobsDone(store)
    /\ runs = 2

\* C10: a stored job holds an image reference exactly when it is completed and
\* a message exactly when it is error; a pending or processing job has neither.
C10_JobFieldsMatchStatus ==
    store # Null =>
        \A j \in DOMAIN store.jobs :
            /\ store.jobs[j].imageUrl # None <=> store.jobs[j].status = "completed"
            /\ store.jobs[j].message # None <=> store.jobs[j].status = "error"

C10_Witness ==
    /\ Len(store.jobs) >= 2
    /\ store.jobs[1].status = "error" /\ store.jobs[1].message # None
    /\ store.jobs[2].status = "completed" /\ store.jobs[2].imageUrl # None

\* C11: within one run the captures are invoked in strictly increasing job
\* index order, and whenever a capture is in flight the runner has attempted
\* the store write of the outcome of every job captured before it in this run.
C11_CaptureOrder ==
    /\ \A a, b \in DOMAIN hist.captured :
          a < b => hist.captured[a] < hist.captured[b]
    /\ rpc = "capturing" => hist.outcomes = Len(hist.captured) - 1
    /\ hist.outcomes <= Len(hist.captured)

C11_Witness ==
    /\ rpc = "capturing"
    /\ Len(hist.captured) = 2
    /\ hist.outcomes = 1

\* C17: in a first run with no cancel request and no store failure, a fault of
\* the browser launch or page creation means that no capture is invoked, and
\* when the run has returned the finally block has run and the stored status
\* is error with a non-empty error message.
C17_FaultOutsideJobScope ==
    (runs = 1 /\ fails = 0 /\ cancels = 0 /\ hist.crashes = 0 /\ hist.runFaulted)
        => /\ hist.captured = <<>>
           /\ rpc = "done" =>
                 /\ hist.finalized
                 /\ store.status = "error"
                 /\ store.error \notin {None, ""}

C17_Witness ==
    /\ runs = 1 /\ fails = 0 /\ cancels = 0 /\ hist.crashes = 0
    /\ hist.runFaulted
    /\ rpc = "done"
    /\ store.status = "error"

\* One step of a job's stored status: unchanged, or one of the three forward
\* steps.
JobForward(a, b) ==
    \/ a = b
    \/ <<a, b>> \in {<<"pending", "processing">>,
                    <<"processing", "completed">>,
                    <<"processing", "error">>}

\* C18 (forward-only job status): with one runner and no store failure, every
\* step leaves each job's stored status unchanged or moves it one step forward,
\* and the job whose capture is in flight is not stored as completed or error.
C18_ForwardOnlyJobStatus ==
    [][(runs' = 1 /\ fails' = 0 /\ hist'.crashes = 0)
          => /\ \A j \in DOMAIN store.jobs :
                   JobForward(store.jobs[j].status, store'.jobs[j].status)
             /\ rpc' = "capturing" => ~JobDone(store'.jobs[i'])]_vars

\* C19: once the store holds 'cancelling', no write of the runner replaces it
\* with a status that is neither cancelling nor terminal.
C19_RunnerKeepsCancelling ==
    [][(store.status = "cancelling" /\ cpc' = cpc /\ store' # store)
          => store'.status \in {"cancelling"} \cup TerminalStatuses]_vars

\* C20: in a first run without store failure, fault or crash, when a write of
\* 'cancelling' completed while the capture of job k was in flight, no job
\* after k is captured; when the loop has stopped, job k's outcome is stored
\* (unless a later cancel write replaced the record) and every job after k is
\* pending; the finally block finds the status cancelling and the run leaves
\* it cancelled.
C20_CancelDuringCapture ==
    LET k == hist.cancelDuring IN
    (runs = 1 /\ fails = 0 /\ ~hist.faulted /\ hist.crashes = 0 /\ k > 0)
        => /\ \A a \in DOMAIN hist.captured : hist.captured[a] <= k
           /\ rpc \in {"finalTaskState", "setFinal", "done"} =>
                 /\ JobDone(store.jobs[k]) \/ hist.cancelWrites > 1
                 /\ \A j \in DOMAIN store.jobs :
                       j > k => store.jobs[j].status = "pending"
           /\ rpc = "finalTaskState" => store.status = "cancelling"
           /\ rpc = "done" => store.status = "cancelled"

C20_Witness ==
    /\ runs = 1 /\ fails = 0 /\ ~hist.faulted /\ hist.crashes = 0
    /\ hist.cancelDuring = 1
    /\ rpc = "done"
    /\ store.status = "cancelled"
    /\ JobDone(store.jobs[1])
    /\ Len(store.jobs) = 2 /\ store.jobs[2].status = "pending"

\* C12: a step of the cancel handler that follows its read either moves to
\* the write, exactly when the stored task is pending or processing, holding
\* that task with only status 'cancelling' and the cancellation reason
\* changed, or returns a 200 acknowledgement; the read step never changes
\* the store, and the write step stores that copy or, when the store
\* rejects it, stores nothing.
C12_CancelFrame ==
    [][cpc' # cpc =>
          IF cpc = "setTask"
          THEN \/ store' = ctask /\ cres' = CancelInitiated
               \/ store' = store /\ cres' = CancelFailed
          ELSE /\ store' = store
               /\ IF store # Null /\ store.status \in {"pending", "processing"}
                  THEN /\ cpc' = "setTask"
                       /\ ctask'.status = "cancelling"
                       /\ ctask'.error = "Task cancelled by user request."
                       /\ ctask'.jobs = store.jobs
                       /\ DOMAIN ctask' = DOMAIN store
                  ELSE /\ cpc' = "done"
                       /\ cres'.code = 200]_vars

C12_Witness ==
    /\ cpc = "done"
    /\ cres = CancelInitiated
    /\ store.status = "cancelling"
    /\ store.error = CancelReason
    /\ Len(store.jobs) = 2
    /\ store.jobs[1].status = "completed"
    /\ store.jobs[2].status = "processing"

\* C13: an archive is streamed only when the status the download handler
\* read is completed or partially_completed; when the task is absent or has
\* any other status the response is an error and no archive is streamed.
C13_DownloadOnlyWhenBundled ==
    /\ api.archive =>
          /\ api.dtask # Null
          /\ api.dtask.status \in {"completed", "partially_completed"}
    /\ (api.dpc = "done" /\ (api.dtask = Null \/
            api.dtask.status \in {"pending", "processing", "cancelling",
                                  "cancelled", "error"}))
          => /\ ~api.archive
             /\ api.dres.code \in {400, 404}

C13_Witness ==
    /\ api.archive
    /\ api.dres = DownloadArchive
    /\ api.dtask.status = "partially_completed"

\* Index of the first occurrence of x in s.
FirstIndex(s, x) == CHOOSE k \in DOMAIN s : s[k] = x /\ \A j \in 1..(k - 1) : s[j] # x

Range(s) == {s[k] : k \in DOMAIN s}

\* Position of a job in the target-major enumeration of the request: first
\* occurrence of its target, then of its dimension, then viewport before
\* fullPage.
JobRank(req, job) ==
    <<FirstIndex(req.urls, job.url), FirstIndex(req.dimensions, job.dimension),
      IF job.screenshotType = "viewport" THEN 1 ELSE 2>>

RankBefore(a, b) ==
    \/ a[1] < b[1]
    \/ a[1] = b[1] /\ a[2] < b[2]
    \/ a[1] = b[1] /\ a[2] = b[2] /\ a[3] < b[3]

\* C14: the task the submission handler built for a valid request has
\* |distinct targets| x |distinct dimensions| x (2 if both else 1) jobs, each
\* pending, each of a requested target, dimension and mode, listed in
\* target-major order of first occurrence with viewport before fullPage; and
\* the runner is started only when that task is stored with status pending.
C14_JobList ==
    /\ api.stask # Null =>
          LET req == api.req
              jobs == api.stask.jobs
          IN /\ Len(jobs) = Cardinality(Range(req.urls))
                              * Cardinality(Range(req.dimensions))
                              * (IF req.screenshotType = "both" THEN 2 ELSE 1)
             /\ api.stask.status = "pending"
             /\ \A j \in DOMAIN jobs :
                   /\ jobs[j].status = "pending"
                   /\ jobs[j].url \in Range(req.urls)
                   /\ jobs[j].dimension \in Range(req.dimensions)
                   /\ jobs[j].screenshotType \in
                         (IF req.screenshotType = "both" THEN {"viewport", "fullPage"}
                          ELSE {req.screenshotType})
             /\ \A j, k \in DOMAIN jobs :
                   j < k => RankBefore(JobRank(req, jobs[j]), JobRank(req, jobs[k]))
    /\ rpc # "idle" => store # Null /\ store.status = "pending" /\ store = api.stask

C14_Witness ==
    /\ api.sres = SubmitAccepted
    /\ rpc = "start"
    /\ api.req.urls = <<UrlB, UrlA, UrlB>>
    /\ api.req.dimensions = <<DimA, DimA>>
    /\ api.req.screenshotType = "both"
    /\ Len(store.jobs) = 4
    /\ store.jobs[1].url = UrlB /\ store.jobs[1].screenshotType = "viewport"
    /\ store.jobs[2].url = UrlB /\ store.jobs[2].screenshotType = "fullPage"
    /\ store.jobs[3].url = UrlA

\* The request of P5: targets [a, a, b], dimensions [d1, d1], mode both.
IsDedupExample ==
    /\ api.req # Null
    /\ api.req.urls = <<UrlA, UrlA, UrlB>>
    /\ api.req.dimensions = <<DimA, DimA>>
    /\ api.req.screenshotType = "both"
    /\ api.stask # Null

\* C15 as stated (dedup, P5): for targets [a, a, b], dimensions [d1, d1] and
\* mode both the handler produces exactly 2 jobs.
C15_DedupTwoJobs == IsDedupExample => Len(api.stask.jobs) = 2

\* C15 as amended: for that request the handler produces exactly 4 jobs, two
\* for each of the two distinct targets.
C15_DedupFourJobs == IsDedupExample => Len(api.stask.jobs) = 4

C15_Witness ==
    /\ IsDedupExample
    /\ store # Null
    /\ Len(store.jobs) = 4

\* What the request of a rejected submission lacks: a target, a dimension, or
\* the well-formedness of one of them.
LacksValidInput(req) ==
    \/ req.urls = <<>>
    \/ req.dimensions = <<>>
    \/ \E k \in DOMAIN req.urls : req.urls[k] \notin {UrlA, UrlB}
    \/ \E k \in DOMAIN req.dimensions : req.dimensions[k] = <<"1", "x">>

\* C16 (empty rejection, P6): a submission without a target or without a
\* dimension, or with a target or dimension that is malformed, is answered
\* with the input error 400, no task is written and the runner is not started.
C16_EmptyRejection ==
    (api.req # Null /\ LacksValidInput(api.req))
        => /\ api.spc = "done"
           /\ api.sres.code = 400
           /\ api.stask = Null
           /\ store = Null
           /\ rpc = "idle"

C16_Witness ==
    /\ api.req # Null
    /\ api.req.urls = <<UrlA>>
    /\ api.req.dimensions = <<DimA, <<"1", "x">>>>
    /\ api.req.screenshotType = "both"
    /\ api.req.waitMs = 0
    /\ api.sres = SubmitInvalidInput

\* C21: at most one capture of a run is in flight: the captures invoked in
\* this run exceed those that have returned by at most one.
C21_OneCaptureInFlight ==
    Len(hist.captured) - hist.returned \in {0, 1}

C21_Witness ==
    /\ Len(hist.captured) = 2
    /\ hist.returned = 1
    /\ rpc = "capturing"

\* C22: the step the runner takes from its invocation when the task is absent
\* or its stored status is terminal is its return: the store is unchanged, no
\* capture was invoked and the finally block was not entered.
C22_AbsentOrTerminalNoOp ==
    [][(rpc = "start" /\ rpc' # rpc /\ (store = Null \/ store.status \in TerminalStatuses))
          => /\ rpc' = "done"
             /\ store' = store
             /\ hist'.captured = <<>>
             /\ ~hist'.finalized]_vars

C22_Witness ==
    /\ rpc = "done"
    /\ hist.startSnap # Null
    /\ hist.startSnap.status = "partially_completed"
    /\ store = hist.startSnap
    /\ fails = 0

\* C23: when the runner's initial setTask fails, the next state is the
\* runner's return: the store is as the step found it (and, when no cancel
\* write was made, as the run's first load found it), no capture was invoked
\* and the finally block was not entered.
C23_InitialWriteFailureReturns ==
    [][(rpc = "setProcessing" /\ rpc' # rpc /\ fails' > fails)
          => /\ rpc' = "done"
             /\ store' = store
             /\ hist.cancelWrites = 0 => store' = hist.startSnap
             /\ hist'.captured = <<>>
             /\ ~hist'.finalized]_vars

C23_Witness ==
    /\ rpc = "done"
    /\ runs = 1 /\ cancels = 0
    /\ fails = 1
    /\ ~hist.finalized
    /\ hist.startSnap # Null
    /\ store = hist.startSnap
    /\ store.status = "pending"

\* C24: a failed store write of the per-job bookkeeping does not end the run:
\* after a failed write of the processing mark the runner is about to invoke
\* the capture of that job; after a failed write of a job's outcome the loop
\* goes on with the next job (or to the finally block when the task is
\* cancelling or no job is left); and a run that entered the job loop has
\* executed the finally block when it has returned.
C24_BookkeepingFailureContinues ==
    [][/\ (rpc = "setJobProcessing" /\ rpc' # rpc /\ fails' > fails)
             => /\ rpc' = "processSingleJob"
                /\ i' = i
                /\ currentJob' = currentJob
       /\ (rpc = "setJobResult" /\ rpc' # rpc /\ fails' > fails)
             => IF task.status = "cancelling" \/ i = Len(task.jobs)
                THEN rpc' = "finalTaskState"
                ELSE rpc' = "latestTaskState" /\ i' = i + 1
       /\ (rpc' = "done" /\ hist'.started > 0) => hist'.finalized]_vars

C24_Witness ==
    /\ rpc = "done"
    /\ runs = 1 /\ cancels = 0 /\ hist.crashes = 0
    /\ fails = 1
    /\ hist.finalized
    /\ hist.captured = <<1, 2>>
    /\ store.jobs[1].status = "processing"
    /\ JobDone(store.jobs[2])

\* C25: a write that stores the error result of a capture changes, against
\* the record it replaces, that job only (status error, a non-empty message)
\* and neither the task status nor another job; a job whose dimension has a
\* zero width is never stored as completed; and when a run that entered the
\* loop has returned with every store call succeeded, no fault outside the
\* job loop and the record in place, every job it found pending was captured.
C25_JobFailureStaysOnJob ==
    [][/\ (rpc = "setJobResult" /\ result.status = "error" /\ store # Null
              /\ store' # store /\ store' # Null)
             => LET idx == FindIndex(store.jobs, currentJob) IN
                /\ store'.status = store.status
                /\ store'.error = store.error
                /\ Len(store'.jobs) = Len(store.jobs)
                /\ \A j \in DOMAIN store.jobs : j # idx => store'.jobs[j] = store.jobs[j]
                /\ store'.jobs[idx].status = "error"
                /\ store'.jobs[idx].message \notin {None, ""}
       /\ store' # Null =>
             \A j \in DOMAIN store'.jobs :
                 store'.jobs[j].dimension = DimZero => store'.jobs[j].status # "completed"
       /\ (rpc' = "done" /\ fails' = 0 /\ ~hist'.runFaulted /\ store' # Null
              /\ hist'.started > 0)
             => \A j \in DOMAIN hist'.startSnap.jobs :
                   hist'.startSnap.jobs[j].status = "pending"
                      => \E a \in DOMAIN hist'.captured : hist'.captured[a] = j]_vars

C25_Witness ==
    /\ rpc = "done"
    /\ fails = 0
    /\ hist.captured = <<1, 2>>
    /\ store # Null
    /\ store.status = "partially_completed"
    /\ store.jobs[1].dimension = DimZero
    /\ store.jobs[1].status = "error"
    /\ store.jobs[1].message = DimensionError.message
    /\ store.jobs[2].status = "completed"

\* --------------------------------------------------------- finalization
\* The step of the finally block that reloaded a record.
FinalReloadStep ==
    /\ rpc = "finalTaskState"
    /\ rpc' # rpc
    /\ fails' = fails
    /\ store # Null

NoUnfinishedJob(t) ==
    \A j \in DOMAIN t.jobs : t.jobs[j].status \notin {"pending", "processing"}
SomeJob(t, s) == \E j \in DOMAIN t.jobs : t.jobs[j].status = s

\* The status the four rules give, in their order.
RuleStatus(wc, t) ==
    CASE wc \/ t.status = "cancelled" -> "cancelled"
      [] ~(wc \/ t.status = "cancelled") /\ t.status = "error" -> "error"
      [] ~(wc \/ t.status = "cancelled") /\ t.status # "error" /\ NoUnfinishedJob(t)
            -> IF ~SomeJob(t, "error") THEN "completed"
               ELSE IF SomeJob(t, "completed") THEN "partially_completed"
               ELSE "error"
      [] OTHER -> "error"

\* The status the finally block settled on in the step just taken: the one it
\* is about to write, or the stored one when it found nothing to write.
SettledStatus == IF rpc' = "setFinal" THEN task'.status ELSE store.status
SettledError == IF rpc' = "setFinal" THEN task'.error ELSE store.error

\* C26: the final status is the one the four rules give when applied in
\* order (cancellation flag or stored cancelled; stored error; all jobs done:
\* completed, partially_completed or error; otherwise error), and it is
\* always a terminal status.
C26_FinalStatusRules ==
    [][FinalReloadStep
          => /\ SettledStatus = RuleStatus(wasCancelled, store)
             /\ SettledStatus \in TerminalStatuses]_vars

\* The flag is set and the stored status is error: rule 1 wins over rule 2.
C26_Witness ==
    /\ rpc = "setFinal"
    /\ wasCancelled
    /\ store # Null
    /\ store.status = "error"
    /\ task.status = "cancelled"

\* The text each branch sets when the reloaded task carries none.
DefaultError(wc, t) ==
    IF wc \/ t.status = "cancelled" THEN "Task cancelled."
    ELSE IF t.status = "error" THEN "Task failed during processing."
    ELSE IF ~NoUnfinishedJob(t)
         THEN UnfinishedMsg(Cardinality({j \in DOMAIN t.jobs :
                                            t.jobs[j].status \in {"pending", "processing"}}))
    ELSE IF SomeJob(t, "completed")
         THEN JobsFailedMsg(Cardinality({j \in DOMAIN t.jobs : t.jobs[j].status = "error"}))
    ELSE "All screenshot jobs failed."

\* C27: the final error is cleared when the final status is completed; in
\* every other branch a text already on the reloaded task is kept and the
\* branch's default is set only when there is none, so a final status other
\* than completed always comes with a non-empty error.
C27_FinalErrorRules ==
    [][FinalReloadStep
          => /\ SettledStatus = "completed" => SettledError = None
             /\ (SettledStatus # "completed" /\ store.error # None)
                   => SettledError = store.error
             /\ (SettledStatus # "completed" /\ store.error = None)
                   => SettledError = DefaultError(wasCancelled, store)
             /\ SettledStatus # "completed" => SettledError \notin {None, ""}]_vars

\* A task whose jobs ended mixed and that already carries a text keeps it.
C27_Witness ==
    /\ rpc = "setFinal"
    /\ ~wasCancelled
    /\ store # Null
    /\ store.status = "processing"
    /\ store.error = CancelReason
    /\ task.status = "partially_completed"
    /\ task.error = CancelReason

\* C28: the finally block writes the task exactly when the computed status
\* differs from the reloaded status or the computed error from the reloaded
\* error; otherwise the store is not written; and no job is changed either
\* way.
C28_FinalWriteIffDiffers ==
    [][/\ FinalReloadStep
          => /\ rpc' = "setFinal"
                   <=> \/ FinalStatus(wasCancelled, store) # store.status
                       \/ FinalError(wasCancelled, store) # store.error
             /\ rpc' = "setFinal" => task'.jobs = store.jobs
             /\ rpc' # "setFinal" => rpc' = "done"
             /\ store' = store
       /\ (rpc = "setFinal" /\ store # Null)
          => /\ store'.jobs = store.jobs
             /\ store' # store =>
                   \/ store'.status # store.status
                   \/ store'.error # store.error
       /\ (rpc = "done" /\ store # Null) => store' = store]_vars

\* A reloaded task whose status is already final but whose error is not:
\* the error alone makes the finally block write.
C28_Witness ==
    /\ rpc = "setFinal"
    /\ store # Null
    /\ store.status = "cancelled"
    /\ store.error = None
    /\ task.status = "cancelled"
    /\ task.error = "Task cancelled."
    /\ task.jobs = store.jobs

\* ------------------------------------------------------ vanished record
\* The reload made in the step just taken found no record: the record is not
\* there, or the read failed and getTask answered null.
ReloadFoundNothing == store = Null \/ fails' > fails

\* C29: a pre-job or post-capture reload that finds no record sets the
\* cancellation flag and leaves the loop for the finally block; with the flag
\* set no capture is invoked and the only write is the final one; a final
\* reload that finds no record returns without a write, and one that finds
\* the record settles on cancelled.
C29_VanishedRecordStopsRun ==
    [][/\ (rpc \in {"latestTaskState", "taskStateBeforeUpdate"} /\ rpc' # rpc
              /\ ReloadFoundNothing)
          => /\ wasCancelled'
             /\ rpc' = "finalTaskState"
             /\ store' = store
       /\ wasCancelled
          => /\ hist'.captured = hist.captured
             /\ rpc' \in {"finalTaskState", "setFinal", "done"}
             /\ (store' # store /\ store' # Null)
                   => rpc = "setFinal" /\ store'.status = "cancelled"
       /\ (rpc = "finalTaskState" /\ rpc' # rpc /\ wasCancelled)
          => IF ReloadFoundNothing
             THEN rpc' = "done" /\ store' = store
             ELSE SettledStatus = "cancelled"]_vars

\* A reload failed while the record was processing; the final reload found
\* it again and the finally block is about to write it as cancelled.
C29_Witness ==
    /\ rpc = "setFinal"
    /\ wasCancelled
    /\ fails = 1
    /\ store # Null
    /\ store.status = "processing"
    /\ task.status = "cancelled"
    /\ task.error = "Task cancelled."

\* ------------------------------------------------------ immutable fields
\* The fields of a task and of a job set at creation.
TaskFields == {"taskId", "status", "jobs", "createdAt", "taskSpecificDir", "error"}
JobFields ==
    {"id", "url", "dimension", "screenshotType", "status", "waitMs", "message", "imageUrl"}

\* The fields of a job the runner writes: its status, its message and the
\* reference to its image, which is a URL and a file path.
ResultFields == {"status", "message", "imageUrl", "localPath"}

\* The stored record has the fields and the creation values of NewTask.
FieldsAsCreated ==
    store # Null
    => /\ DOMAIN store = TaskFields
       /\ store.taskId = TaskId
       /\ store.createdAt = CreatedAt
       /\ store.taskSpecificDir = TaskSpecificDir
       /\ \A j \in DOMAIN store.jobs :
             /\ JobFields \subseteq DOMAIN store.jobs[j]
             /\ DOMAIN store.jobs[j] \subseteq JobFields \cup ResultFields
             /\ store.jobs[j].id = j
             /\ store.jobs[j].url = JobUrl
             /\ store.jobs[j].dimension = DimOk
             /\ store.jobs[j].screenshotType = "viewport"
             /\ store.jobs[j].waitMs = 0

\* C30: the stored task keeps its taskId, createdAt, output directory, the
\* length and order of its job list and each job's id, target, dimension,
\* mode and waitMs as at creation; a write changes nothing but the task's
\* status and error and a job's status, message and image reference.
C30_ImmutableFields ==
    [][/\ FieldsAsCreated'
       /\ (store # Null /\ store' # Null)
          => /\ Len(store'.jobs) = Len(store.jobs)
             /\ \A j \in DOMAIN store.jobs :
                   \A k \in DOMAIN store.jobs[j] \ ResultFields :
                      store'.jobs[j][k] = store.jobs[j][k]]_vars

\* A cancelled task with a captured job: runner and cancel handler both wrote.
C30_Witness ==
    /\ store # Null
    /\ store.status = "cancelled"
    /\ hist.cancelWrites > 0
    /\ \E j \in DOMAIN store.jobs :
          /\ store.jobs[j].status = "completed"
          /\ store.jobs[j].imageUrl # None
          /\ "localPath" \in DOMAIN store.jobs[j]

\* --------------------------------------------------------------- job ids
\* C31: in a stored task two jobs that differ in target, dimension or mode
\* have different ids, and looking a job up by its id (as the runner does
\* after the capture) finds that job.
C31_UniqueJobIds ==
    store # Null
    => \A j, k \in DOMAIN store.jobs :
          /\ (j # k /\ <<store.jobs[j].url, store.jobs[j].dimension,
                         store.jobs[j].screenshotType>>
                       # <<store.jobs[k].url, store.jobs[k].dimension,
                           store.jobs[k].screenshotType>>)
                => store.jobs[j].id # store.jobs[k].id
          /\ FindIndex(store.jobs, store.jobs[j].id) = j

\* ---------------------------------------------------------- settle delay
\* The delay the claim gives for a stored waitMs.
ExpectedDelay(job) ==
    IF "waitMs" \notin DOMAIN job THEN 0
    ELSE IF job.waitMs <= 0 THEN 0
    ELSE IF job.waitMs >= WaitCeiling THEN WaitCeiling
    ELSE job.waitMs

C33_ReturnsAfterOneFinalization ==
    /\ <>(rpc = "done")
    /\ [][/\ hist'.startSnap # Null
                => Len(hist'.captured) <= Len(hist'.startSnap.jobs)
          /\ (rpc = "finalTaskState" /\ rpc' # rpc) => ~hist.finalized /\ hist'.finalized
          /\ (rpc = "setProcessing" /\ rpc' = "done") => fails' > fails
          /\ (rpc' = "done" /\ rpc \notin {"done", "start", "setProcessing"})
                => hist'.finalized]_vars

\* A run that left the loop through the catch block and returned finalized.
C33_Witness ==
    /\ rpc = "done"
    /\ hist.runFaulted
    /\ hist.finalized
    /\ store # Null
    /\ store.status = "error"

ResumedWithProcessing(k) ==
    /\ hist.startSnap # Null
    /\ hist.startSnap.status \in {"pending", "processing"}
    /\ k \in DOMAIN hist.startSnap.jobs
    /\ hist.startSnap.jobs[k].status = "processing"

\* C35: a job that a run finds stored as processing is not captured by that
\* run and stays processing; when the run was not disturbed (no store call
\* failed, no fault, no cancel request, no delete) it leaves the task in
\* status error with the 'unfinished jobs' message, whatever the other jobs
\* ended as.
C35_StuckJobFailsTask ==
    \A k \in 1..MaxJobs :
        ResumedWithProcessing(k)
        => /\ \A a \in DOMAIN hist.captured : hist.captured[a] # k
           /\ store # Null => store.jobs[k].status = "processing"
           /\ (rpc = "done" /\ fails = 0 /\ ~hist.runFaulted /\ store # Null)
                 => /\ store.status = "error"
                    /\ store.error = UnfinishedMsg(1)

\* The other job was captured and completed; the task is error all the same.
C35_Witness ==
    /\ ResumedWithProcessing(1)
    /\ rpc = "done"
    /\ fails = 0
    /\ store # Null
    /\ Len(store.jobs) = 2
    /\ hist.captured = <<2>>
    /\ store.jobs[2].status = "completed"
    /\ store.jobs[1].status = "processing"
    /\ store.status = "error"

\* --------------------------------------------- cancelled without a cancel
\* C36: a run that no cancel request reached (it loaded the task pending or
\* processing and no cancel handler ran) leaves the stored status cancelled
\* only if the record was deleted during the run.
C36_CancelledOnlyOnRequestOrDelete ==
    (/\ rpc = "done"
     /\ cancels = 0
     /\ hist.startSnap # Null
     /\ hist.startSnap.status \in {"pending", "processing"}
     /\ store # Null
     /\ store.status = "cancelled")
    => hist.deleted

\* ------------------------------------------------------ deleted record
\* C37: once the record has been deleted, the store holds no record for the
\* task when the run has returned.
C37_DeletedStaysDeleted ==
    (rpc = "done" /\ hist.deleted) => store = Null

\* ---------------------------------------------------- cancellation reason
\* C38: a stored task whose status is completed, partially_completed or error
\* does not carry the cancel handler's reason as its error; after the run and
\* the cancel handler have returned the reason is found on cancelled tasks
\* only.
C38_ReasonOnlyOnCancelled ==
    (store # Null /\ store.error = CancelReason)
    => /\ store.status \notin {"completed", "partially_completed", "error"}
       /\ (rpc = "done" /\ cpc \in {"idle", "done"}) => store.status = "cancelled"

\* ------------------------------------------------- downloadable statuses
\* C39: a stored task in status completed or partially_completed has a job
\* that is completed and carries an image reference; in status completed
\* every job is completed.
C39_DownloadableHasImage ==
    (store # Null /\ store.status \in {"completed", "partially_completed"})
    => /\ \E j \in DOMAIN store.jobs :
             /\ store.jobs[j].status = "completed"
             /\ store.jobs[j].imageUrl \notin {None, ""}
       /\ store.status = "completed"
             => \A j \in DOMAIN store.jobs : store.jobs[j].status = "completed"

\* One job failed, the other is the only one with an image.
C39_Witness ==
    /\ store # Null
    /\ store.status = "partially_completed"
    /\ Len(store.jobs) = 2
    /\ store.jobs[1].status = "error"
    /\ store.jobs[2].status = "completed"
    /\ store.jobs[2].imageUrl = CaptureCompleted.imageUrl

\* ----------------------------------------------------- repeated cancel
\* C40: when no store call fails, a cancel request that follows an answered
\* one attempts no write and leaves the store as the first left it; the
\* store is written by the first request only.
C40_CancelIdempotent ==
    [][fails' = 0
          => /\ store' # store => cancels' = 1
             /\ (cancels >= 1 /\ cpc = "done" /\ cancels' = cancels + 1)
                   => cpc' = "done" /\ store' = store]_vars

\* The second request found the task cancelling and answered without a write.
C40_Witness ==
    /\ cancels = 2
    /\ cpc = "done"
    /\ fails = 0
    /\ hist.cancelWrites = 1
    /\ store # Null
    /\ store.status = "cancelling"
    /\ cres = CancelAlreadyFinal

====
